---- MODULE Spec2Model ----
(***************************************************************************)
(* BC calculator service: the BCProcess worker (one bc child process with  *)
(* a single-flight request/response protocol and a deadline timer), the    *)
(* BCProcessPool (acquire / release / replace / shutdown) and the request  *)
(* handlers that drive them.                                               *)
(*                                                                         *)
(* Granularity: Node runs one macrotask (an I/O callback, a timer          *)
(* callback, an incoming request) to completion, then drains the promise   *)
(* continuations (microtasks) it queued before the next macrotask starts.  *)
(* One action of this model is therefore one macrotask together with all   *)
(* continuations it triggers.  Operators over a state record s model the   *)
(* methods of the source; s.mq is the microtask queue of the macrotask     *)
(* being run (it is empty between actions and is not a variable).          *)
(***************************************************************************)
EXTENDS Integers, Sequences, FiniteSets, TLC

\* ---------------------------------------------------------------- bounds
poolSize == 2            \* config.poolSize of the pool under test
MaxWorkers == 3          \* BCProcess objects ever constructed in one run
NumHandlers == 2         \* request handlers that can be in flight at once
MaxInitCalls == 1        \* initialize() calls that get as far as spawning
maxWaitTime == 200       \* acquireProcess: maxWaitTime, scaled (30000 in the source)
MaxBuf == 2              \* longest outputBuffer the runs keep
NumClientWorkers == 1    \* workers a direct client of BCProcess constructs
MAX_LENGTH == 20         \* InputValidator.MAX_LENGTH, scaled (10000 in the source)
MaxDelimiters == 4       \* longest text of grouping delimiters validate() is given

\* ------------------------------------------------------ program constants
checkInterval == 100     \* acquireProcess: poll interval
defaultPrecision == 20   \* pool config: defaultPrecision
minPrecision == 0
maxPrecision == 100

Workers == 1..MaxWorkers
Handlers == 1..NumHandlers

NL == "\n"
TAB == "\t"
\* the grave accent character
BACKTICK == "grave"
\* What one read of the engine's stdout can deliver.
Chunks == { <<"4", NL>>, <<"4">>, <<NL>>, <<" ", NL>>, <<"4", NL, "7", NL>>, <<"4", NL, "7">> }
\* What one read of the engine's stderr can deliver.
ErrTexts == { <<"e">>, <<" ", "e", NL>>, <<NL>>, <<" ">> }
\* The pool-level runs draw the engine's output from one complete result line
\* and one diagnostic: what a read holds matters to the framing only.
PoolChunks == { <<"4", NL>> }
PoolErrTexts == { <<"e">> }
\* exit codes of an engine that ends on its own; the pool-level runs use one
ExitCodes == { "0", "1" }
PoolExitCodes == { "0" }
\* precision arguments a request can carry
PrecisionArgs == { 5, 101, -1 }
\* The pool-level runs use one valid precision and one out of range.
PoolPrecisionArgs == { 20, 101 }
\* The expression a calculate request can carry: one text validate() accepts,
\* with white space around it, and one it rejects.
PoolExpressions == { <<" ", "1", "+", "1", NL>>, <<"1", "$", "1">> }
\* The expression a direct client passes to evaluate().
ClientExpression == <<"1", "+", "1">>

\* The caller awaiting a request: start() of the worker itself, a request
\* handler (for its scale= statement or for its expression), or a direct client.
Own(type, h, stmt, n) == [type |-> type, h |-> h, stmt |-> stmt, n |-> n]
NoReq == Own("none", 0, "none", 0)
\* Who awaits createProcess(): an initialize() call, releaseProcess (detached),
\* acquireProcess of a handler, or a direct client constructing a BCProcess.
Creator(type, id) == [type |-> type, id |-> id]

VARIABLES
  \* BCProcess fields, per worker object
  process,          \* this.process !== null
  isReady,          \* this.isReady
  currentPrecision, \* this.currentPrecision
  pendingRequest,   \* this.pendingRequest: NoReq or the awaiting caller
  timers,           \* armed deadline timers of the worker (each tagged by its request)
  outputBuffer,     \* this.outputBuffer
  startPc,          \* where start() of the worker stands
  creator,          \* who awaits the createProcess() that constructed the worker
  created,          \* number of BCProcess objects constructed so far
  \* the bc child process
  os,               \* "none" | "running" | "killed" (SIGTERM sent) | "exited" | "errored"
  engineFed,        \* a statement was written to its stdin: it has something to answer
  owed,             \* statements on its stdin it has not finished answering (followed
                    \* only by EngineSpec; bc executes its input in order)
  \* BCProcessPool fields
  config,           \* this.config: the pool's poolSize, fixed by the constructor
  processes, availableProcesses, isInitialized,
  initCalls,        \* the initialize() calls that spawned: their Promise.all
  \* request handlers (handleCalculate / handleCalculateAdvanced)
  hpc, hproc, hprec, waitedTime,
  hexpr,            \* validation.sanitized of the handler's request
  globalPrecision,
  \* history
  ev,               \* what the latest macrotask did (settlements, returns, responses)
  clientAwait,      \* workers on which a direct client awaits an accepted request
  afterShutdown,    \* shutdown() returned and initialize() was not called since
  initFailed,       \* the latest initialize() failed
  \* InputValidator (a call of the static validate and what it returned)
  expression, validation

serverVars == << process, isReady, currentPrecision, pendingRequest, timers, outputBuffer,
                 startPc, creator, created, os, engineFed, owed,
                 config, processes, availableProcesses, isInitialized, initCalls,
                 hpc, hproc, hprec, waitedTime, hexpr, globalPrecision,
                 ev, clientAwait, afterShutdown, initFailed >>
vars == << serverVars, expression, validation >>

\* validate() was not called yet
NoValidation == [valid |-> FALSE, error |-> "not called", sanitized |-> << >>]

\* What one macrotask did: the requests it settled, the workers acquireProcess
\* returned, the responses handlers (and a direct client's calls) completed with,
\* the statements it wrote to an engine's stdin, the releaseProcess calls.
NoEvent == [settled |-> {}, acq |-> {}, resp |-> {}, wrote |-> {}, dup |-> FALSE,
            rel |-> {}]

\* The state as one record, and the assignment of a record to the variables.
Cur == [ process |-> process, isReady |-> isReady, currentPrecision |-> currentPrecision,
         pendingRequest |-> pendingRequest, timers |-> timers, outputBuffer |-> outputBuffer,
         startPc |-> startPc, creator |-> creator, created |-> created,
         os |-> os, engineFed |-> engineFed,
         config |-> config, processes |-> processes, availableProcesses |-> availableProcesses,
         isInitialized |-> isInitialized, initCalls |-> initCalls,
         hpc |-> hpc, hproc |-> hproc, hprec |-> hprec, waitedTime |-> waitedTime,
         hexpr |-> hexpr,
         globalPrecision |-> globalPrecision,
         ev |-> NoEvent, clientAwait |-> clientAwait,
         afterShutdown |-> afterShutdown, initFailed |-> initFailed,
         mq |-> << >>, overflow |-> FALSE ]

CommitServer(t) ==
  /\ process' = t.process /\ isReady' = t.isReady
  /\ currentPrecision' = t.currentPrecision
  /\ pendingRequest' = t.pendingRequest /\ timers' = t.timers
  /\ outputBuffer' = t.outputBuffer /\ startPc' = t.startPc
  /\ creator' = t.creator /\ created' = t.created
  /\ os' = t.os /\ engineFed' = t.engineFed
  /\ processes' = t.processes /\ availableProcesses' = t.availableProcesses
  /\ isInitialized' = t.isInitialized /\ initCalls' = t.initCalls
  /\ hpc' = t.hpc /\ hproc' = t.hproc /\ hprec' = t.hprec /\ hexpr' = t.hexpr
  /\ waitedTime' = t.waitedTime
  /\ globalPrecision' = t.globalPrecision
  /\ ev' = t.ev /\ clientAwait' = t.clientAwait
  /\ afterShutdown' = t.afterShutdown /\ initFailed' = t.initFailed
  /\ UNCHANGED << config, expression, validation >>

Commit(t) == CommitServer(t) /\ UNCHANGED owed


\* the state after new BCProcessPool({poolSize: n, ...}) and the module's top level
Constructed(n) ==
  /\ config = [poolSize |-> n]
  /\ process = [w \in Workers |-> FALSE]
  /\ isReady = [w \in Workers |-> FALSE]
  /\ currentPrecision = [w \in Workers |-> defaultPrecision]
  /\ pendingRequest = [w \in Workers |-> NoReq]
  /\ timers = [w \in Workers |-> {}]
  /\ outputBuffer = [w \in Workers |-> << >>]
  /\ startPc = [w \in Workers |-> "new"]
  /\ creator = [w \in Workers |-> Creator("none", 0)]
  /\ created = 0
  /\ os = [w \in Workers |-> "none"]
  /\ engineFed = [w \in Workers |-> FALSE]
  /\ processes = << >>
  /\ availableProcesses = << >>
  /\ isInitialized = FALSE
  /\ initCalls = << >>
  /\ hpc = [h \in Handlers |-> "idle"]
  /\ hproc = [h \in Handlers |-> 0]
  /\ hprec = [h \in Handlers |-> defaultPrecision]
  /\ hexpr = [h \in Handlers |-> << >>]
  /\ waitedTime = [h \in Handlers |-> 0]
  /\ globalPrecision = defaultPrecision
  /\ ev = NoEvent
  /\ clientAwait = {}
  /\ afterShutdown = FALSE
  /\ initFailed = FALSE
  /\ owed = [w \in Workers |-> 0]

ServerInit == Constructed(poolSize)

Init ==
  /\ ServerInit
  /\ expression = << >>
  /\ validation = NoValidation

\* ------------------------------------------------------------ sequences
includes(q, x) == \E i \in 1..Len(q) : q[i] = x
\* Array.prototype.filter(p => p !== x)
RECURSIVE without(_, _)
without(q, x) ==
  IF q = << >> THEN << >>
  ELSE IF Head(q) = x THEN without(Tail(q), x)
  ELSE << Head(q) >> \o without(Tail(q), x)

\* String.prototype.trim on a sequence of characters
IsSpace(c) == c = " " \/ c = NL \/ c = TAB
RECURSIVE trimLeft(_)
trimLeft(str) ==
  IF str # << >> /\ IsSpace(Head(str)) THEN trimLeft(Tail(str)) ELSE str
RECURSIVE trimRight(_)
trimRight(str) ==
  IF str # << >> /\ IsSpace(str[Len(str)]) THEN trimRight(SubSeq(str, 1, Len(str) - 1))
  ELSE str
trim(str) == trimRight(trimLeft(str))

\* String.prototype.split('\n'): the pieces between newlines (always at least one)
RECURSIVE split(_)
split(str) ==
  IF \A i \in 1..Len(str) : str[i] # NL THEN << str >>
  ELSE LET k == CHOOSE i \in 1..Len(str) :
                   str[i] = NL /\ \A j \in 1..(i - 1) : str[j] # NL
       IN << SubSeq(str, 1, k - 1) >> \o split(SubSeq(str, k + 1, Len(str)))

\* lines.filter(line => line.trim())
RECURSIVE nonEmptyLines(_)
nonEmptyLines(lines) ==
  IF lines = << >> THEN << >>
  ELSE IF trim(Head(lines)) # << >> THEN << Head(lines) >> \o nonEmptyLines(Tail(lines))
  ELSE nonEmptyLines(Tail(lines))


\* ------------------------------------------------------------ InputValidator
\* Texts are sequences of characters. The character classes of the regular
\* expressions, written out.
Digits == {"0", "1", "2", "3", "4", "5", "6", "7", "8", "9"}
LowerCase == << "a", "b", "c", "d", "e", "f", "g", "h", "i", "j", "k", "l", "m",
                "n", "o", "p", "q", "r", "s", "t", "u", "v", "w", "x", "y", "z" >>
UpperCase == << "A", "B", "C", "D", "E", "F", "G", "H", "I", "J", "K", "L", "M",
                "N", "O", "P", "Q", "R", "S", "T", "U", "V", "W", "X", "Y", "Z" >>
Letters == {LowerCase[i] : i \in 1..Len(LowerCase)} \cup {UpperCase[i] : i \in 1..Len(UpperCase)}
\* \s
WhiteSpace == {" ", NL, TAB}
\* \w
WordChars == Digits \cup Letters \cup {"_"}
\* the character class of ALLOWED_CHARS
AllowedChars ==
  Digits \cup Letters \cup WhiteSpace
  \cup {"+", "-", "*", "/", "^", "(", ")", ".", ",", ";", "=", "<", ">", "!", "&", "|",
        "%", "{", "}", "[", "]"}
\* /^[...]+$/.test(text)
ALLOWED_CHARS(text) ==
  text # << >> /\ \A i \in 1..Len(text) : text[i] \in AllowedChars

\* the lower-case form of a character (the i flag of a pattern)
ToLower(c) ==
  IF \E i \in 1..Len(UpperCase) : UpperCase[i] = c
  THEN LowerCase[CHOOSE i \in 1..Len(UpperCase) : UpperCase[i] = c]
  ELSE c
\* the literal word, ignoring case, stands at position i of text
WordAt(text, i, word) ==
  /\ i >= 1 /\ i + Len(word) - 1 <= Len(text)
  /\ \A k \in 1..Len(word) : ToLower(text[i + k - 1]) = word[k]
\* \s* from position i of text on: the positions at which the rest of the
\* pattern can go on
AfterSpaces(text, i) ==
  {j \in i..Len(text) : \A k \in i..(j - 1) : text[k] \in WhiteSpace}
\* /word\s*\(/i
CallOf(text, word) ==
  \E i \in 1..Len(text) :
    /\ WordAt(text, i, word)
    /\ \E j \in AfterSpaces(text, i + Len(word)) : text[j] = "("
\* /c\s*[\/\w]/ for the character c
WordOrPathAfter(text, c) ==
  \E i \in 1..Len(text) :
    /\ text[i] = c
    /\ \E j \in AfterSpaces(text, i + 1) : text[j] \in WordChars \cup {"/"}
ShellCommands ==
  { <<"b", "a", "s", "h">>, <<"s", "h">>, <<"r", "m">>, <<"c", "a", "t">>, <<"l", "s">>,
    <<"p", "w", "d">>, <<"c", "h", "m", "o", "d">>, <<"c", "h", "o", "w", "n">> }
\* /;\s*(?:bash|sh|rm|cat|ls|pwd|chmod|chown)/i
CommandAfterSemicolon(text) ==
  \E i \in 1..Len(text) :
    /\ text[i] = ";"
    /\ \E j \in AfterSpaces(text, i + 1), word \in ShellCommands : WordAt(text, j, word)
\* some pattern of DANGEROUS_PATTERNS matches the text
DANGEROUS_PATTERNS(text) ==
  \/ CallOf(text, <<"s", "y", "s", "t", "e", "m">>)
  \/ CallOf(text, <<"e", "x", "e", "c">>)
  \/ \E i \in 1..Len(text) : text[i] = BACKTICK
  \/ \E i \in 1..(Len(text) - 1) : text[i] = "$" /\ text[i + 1] = "("
  \/ WordOrPathAfter(text, ">")
  \/ WordOrPathAfter(text, "<")
  \/ WordOrPathAfter(text, "|")
  \/ CommandAfterSemicolon(text)

\* the results validate() returns
Invalid(error) == [valid |-> FALSE, error |-> error, sanitized |-> << >>]
Valid(sanitized) == [valid |-> TRUE, error |-> "none", sanitized |-> sanitized]

\* the loop of validateBCSyntax over the characters from position i on, then
\* the tests of the final counts
RECURSIVE countDelimiters(_, _, _, _, _)
countDelimiters(text, i, parenCount, braceCount, bracketCount) ==
  IF i > Len(text)
  THEN IF parenCount # 0 THEN Invalid("unbalanced parentheses")
       ELSE IF braceCount # 0 THEN Invalid("unbalanced braces")
       ELSE IF bracketCount # 0 THEN Invalid("unbalanced brackets")
       ELSE Valid(text)
  ELSE LET char == text[i]
           parens == parenCount + (IF char = "(" THEN 1 ELSE 0) - (IF char = ")" THEN 1 ELSE 0)
           braces == braceCount + (IF char = "{" THEN 1 ELSE 0) - (IF char = "}" THEN 1 ELSE 0)
           brackets == bracketCount + (IF char = "[" THEN 1 ELSE 0)
                                    - (IF char = "]" THEN 1 ELSE 0)
       IN IF parens < 0 THEN Invalid("unbalanced parentheses")
          ELSE IF braces < 0 THEN Invalid("unbalanced braces")
          ELSE IF brackets < 0 THEN Invalid("unbalanced brackets")
          ELSE countDelimiters(text, i + 1, parens, braces, brackets)

validateBCSyntax(text) == countDelimiters(text, 1, 0, 0, 0)

\* InputValidator.sanitize
sanitize(text) == trim(text)

\* variant: the deny-list is not consulted
validate_NoDenyList(text) ==
  IF text = << >> THEN Invalid("null")
  ELSE IF Len(text) > MAX_LENGTH THEN Invalid("too long")
  ELSE LET trimmed == trim(text)
       IN IF trimmed = << >> THEN Invalid("empty")
          ELSE IF ~ALLOWED_CHARS(trimmed) THEN Invalid("invalid characters")
          ELSE IF ~validateBCSyntax(trimmed).valid THEN validateBCSyntax(trimmed)
          ELSE Valid(trimmed)

\* InputValidator.validate
validate(text) ==
  IF text = << >> THEN Invalid("null")
  ELSE IF Len(text) > MAX_LENGTH THEN Invalid("too long")
  ELSE LET trimmed == trim(text)
       IN IF trimmed = << >> THEN Invalid("empty")
          ELSE IF ~ALLOWED_CHARS(trimmed) THEN Invalid("invalid characters")
          ELSE IF DANGEROUS_PATTERNS(trimmed) THEN Invalid("disallowed patterns")
          ELSE IF ~validateBCSyntax(trimmed).valid THEN validateBCSyntax(trimmed)
          ELSE Valid(trimmed)

\* ------------------------------------------------------------- BCProcess
\* An async function that throws, or a promise that settles: the caller's
\* continuation is queued as a microtask.
\* pend: the promise is the one held in pendingRequest (resolve / reject was
\* called on it), not the promise of a call that threw before being accepted.
Settle(s, owner, w, ok, val, pend) ==
  [s EXCEPT !.mq = Append(@, [owner |-> owner, w |-> w, ok |-> ok, val |-> val,
                              pend |-> pend])]
Throw(s, owner, w, err) == Settle(s, owner, w, FALSE, err, FALSE)

\* new BCCalculatorError(message, code, details): the exit handler passes the
\* exit code and the signal as details, the 'error' handler and the catch of
\* stdin.write pass the error they got, the others pass none
NoDetails == [code |-> "none", signal |-> "none"]
Cause == [code |-> "error", signal |-> "error"]
BCCalculatorError(code, details) == [code |-> code, details |-> details]

isAvailable(s, w) ==
  s.isReady[w] /\ s.pendingRequest[w] = NoReq /\ s.process[w]

\* variant: the timer is not cleared when the request is resolved
resolvePendingRequest_KeepsTimer(s, w, result) ==
  IF s.pendingRequest[w] = NoReq THEN s
  ELSE LET req == s.pendingRequest[w]
           s1 == [s EXCEPT !.pendingRequest[w] = NoReq,
                           !.ev.settled = @ \cup {[w |-> w, req |-> req, ok |-> TRUE,
                                                    val |-> result,
                                                    details |-> NoDetails]}]
       IN Settle(s1, req, w, TRUE, result, TRUE)

resolvePendingRequest(s, w, result) ==
  IF s.pendingRequest[w] = NoReq THEN s
  ELSE LET req == s.pendingRequest[w]
           s1 == [s EXCEPT !.timers[w] = @ \ {req},
                           !.pendingRequest[w] = NoReq,
                           !.ev.settled = @ \cup {[w |-> w, req |-> req, ok |-> TRUE,
                                                    val |-> result,
                                                    details |-> NoDetails]}]
       IN Settle(s1, req, w, TRUE, result, TRUE)

\* variant: reject() is called but pendingRequest is not cleared
rejectPendingRequest_KeepsPending(s, w, err) ==
  IF s.pendingRequest[w] = NoReq THEN s
  ELSE LET req == s.pendingRequest[w]
           s1 == [s EXCEPT !.timers[w] = @ \ {req},
                           !.ev.settled = @ \cup {[w |-> w, req |-> req, ok |-> FALSE,
                                                    val |-> err.code,
                                                    details |-> err.details]}]
       IN Settle(s1, req, w, FALSE, err.code, TRUE)

rejectPendingRequest(s, w, err) ==
  IF s.pendingRequest[w] = NoReq THEN s
  ELSE LET req == s.pendingRequest[w]
           s1 == [s EXCEPT !.timers[w] = @ \ {req},
                           !.pendingRequest[w] = NoReq,
                           !.ev.settled = @ \cup {[w |-> w, req |-> req, ok |-> FALSE,
                                                    val |-> err.code,
                                                    details |-> err.details]}]
       IN Settle(s1, req, w, FALSE, err.code, TRUE)

\* variant: the process is signalled but its handle is kept
kill_KeepsHandle(s, w) ==
  IF s.process[w]
  THEN [s EXCEPT !.os[w] = IF @ = "running" THEN "killed" ELSE @,
                 !.isReady[w] = FALSE]
  ELSE s

kill(s, w) ==
  IF s.process[w]
  THEN [s EXCEPT !.os[w] = IF @ = "running" THEN "killed" ELSE @,
                 !.process[w] = FALSE,
                 !.isReady[w] = FALSE]
  ELSE s

\* the expression argument of the evaluate() call made for the owner; for a
\* precision statement the text is scale=<n> with n the owner's n
Argument(s, owner) ==
  IF owner.stmt # "expr" THEN << >>
  ELSE IF owner.type = "handler" THEN s.hexpr[owner.h]
  ELSE ClientExpression

\* variant: no check for a pending request
evaluate_NoBusyCheck(s, w, owner, wf) ==
  IF ~s.isReady[w] \/ ~s.process[w] THEN Throw(s, owner, w, "BC_NOT_READY")
  ELSE LET s1 == [s EXCEPT !.pendingRequest[w] = owner,
                           !.outputBuffer[w] = << >>,
                           !.timers[w] = @ \cup {owner},
                           !.clientAwait = IF owner.type = "client" THEN @ \cup {w} ELSE @]
       IN IF wf THEN rejectPendingRequest(s1, w, BCCalculatorError("INTERNAL_ERROR", Cause))
          ELSE [s1 EXCEPT !.engineFed[w] = TRUE,
                          !.ev.wrote = @ \cup {[w |-> w, req |-> owner,
                                                 text |-> Argument(s, owner)]}]

\* wf: whether stdin.write throws in this macrotask
evaluate(s, w, owner, wf) ==
  IF ~s.isReady[w] \/ ~s.process[w] THEN Throw(s, owner, w, "BC_NOT_READY")
  ELSE IF s.pendingRequest[w] # NoReq THEN Throw(s, owner, w, "BC_NOT_READY")
  ELSE LET s1 == [s EXCEPT !.pendingRequest[w] = owner,
                           !.outputBuffer[w] = << >>,
                           !.timers[w] = @ \cup {owner},
                           !.clientAwait = IF owner.type = "client" THEN @ \cup {w} ELSE @]
       IN IF wf THEN rejectPendingRequest(s1, w, BCCalculatorError("INTERNAL_ERROR", Cause))
          ELSE [s1 EXCEPT !.engineFed[w] = TRUE,
                          !.ev.wrote = @ \cup {[w |-> w, req |-> owner,
                                                 text |-> Argument(s, owner)]}]

\* A precision argument that is not a number: the tool arguments are parsed
\* JSON of any type and the handlers cast them without a test.
NonNumeric == 0 - 1000
IsNumber(x) == x # NonNumeric
\* x < y and x > y of JavaScript for a number y: false when x is not a number
Less(x, y) == IsNumber(x) /\ x < y
Greater(x, y) == IsNumber(x) /\ x > y

\* variant: the scale is passed on without the range test
setPrecision_NoRangeCheck(s, w, scale, owner, wf) ==
  evaluate(s, w, owner, wf)

setPrecision(s, w, scale, owner, wf) ==
  IF Less(scale, minPrecision) \/ Greater(scale, maxPrecision)
  THEN Throw(s, owner, w, "VALIDATION_ERROR")
  ELSE evaluate(s, w, owner, wf)

\* start() up to its first await: spawn and setupHandlers
start(s, w) ==
  [s EXCEPT !.process[w] = TRUE, !.os[w] = "running", !.startPc[w] = "delay"]

\* start() after the 100 ms delay
startAfterDelay(s, w, wf) ==
  LET s1 == [s EXCEPT !.isReady[w] = TRUE, !.startPc[w] = "scale"]
  IN setPrecision(s1, w, defaultPrecision, Own("start", 0, "scale", defaultPrecision), wf)

\* variant: the first non-empty line of a read is taken as the result
stdoutHandler_FirstLine(s, w, data) ==
  LET buf == s.outputBuffer[w] \o data
      lines == split(buf)
  IN IF Len(lines) >= 2
     THEN LET rest == lines[Len(lines)]
              results == nonEmptyLines(SubSeq(lines, 1, Len(lines) - 1))
              s1 == [s EXCEPT !.outputBuffer[w] = rest]
          IN IF Len(results) > 0 /\ s.pendingRequest[w] # NoReq
             THEN resolvePendingRequest(s1, w, trim(results[1]))
             ELSE s1
     ELSE [s EXCEPT !.outputBuffer[w] = buf]

\* stdout 'data' handler
stdoutHandler(s, w, data) ==
  LET buf == s.outputBuffer[w] \o data
      lines == split(buf)
  IN IF Len(lines) >= 2
     THEN LET rest == lines[Len(lines)]
              results == nonEmptyLines(SubSeq(lines, 1, Len(lines) - 1))
              s1 == [s EXCEPT !.outputBuffer[w] = rest]
          IN IF Len(results) > 0 /\ s.pendingRequest[w] # NoReq
             THEN resolvePendingRequest(s1, w, trim(results[Len(results)]))
             ELSE s1
     ELSE [s EXCEPT !.outputBuffer[w] = buf]

\* variant: a diagnostic on stderr is treated as fatal for the worker
stderrHandler_Fatal(s, w, data) ==
  LET errorText == trim(data)
  IN IF errorText # << >> /\ s.pendingRequest[w] # NoReq
     THEN [rejectPendingRequest(s, w, BCCalculatorError("BC_RUNTIME_ERROR", NoDetails))
             EXCEPT !.isReady[w] = FALSE]
     ELSE s

\* stderr 'data' handler
stderrHandler(s, w, data) ==
  LET errorText == trim(data)
  IN IF errorText # << >> /\ s.pendingRequest[w] # NoReq
     THEN rejectPendingRequest(s, w, BCCalculatorError("BC_RUNTIME_ERROR", NoDetails))
     ELSE s

\* variant: the rejection does not carry the exit code and signal
exitHandler_NoDetails(s, w, code, signal) ==
  LET s1 == [s EXCEPT !.isReady[w] = FALSE]
  IN IF s1.pendingRequest[w] # NoReq
     THEN rejectPendingRequest(s1, w, BCCalculatorError("BC_PROCESS_EXIT", NoDetails))
     ELSE s1

\* 'exit' handler
exitHandler(s, w, code, signal) ==
  LET s1 == [s EXCEPT !.isReady[w] = FALSE]
  IN IF s1.pendingRequest[w] # NoReq
     THEN rejectPendingRequest(s1, w, BCCalculatorError("BC_PROCESS_EXIT",
                                        [code |-> code, signal |-> signal]))
     ELSE s1

\* 'error' handler
errorHandler(s, w) ==
  LET s1 == [s EXCEPT !.isReady[w] = FALSE]
  IN IF s1.pendingRequest[w] # NoReq
     THEN rejectPendingRequest(s1, w, BCCalculatorError("BC_SPAWN_ERROR", Cause))
     ELSE s1

\* variant: the hung process is not killed
timeoutCallback_NoKill(s, w) ==
  rejectPendingRequest(s, w, BCCalculatorError("BC_TIMEOUT", NoDetails))

\* the setTimeout callback armed by evaluate
timeoutCallback(s, w) ==
  kill(rejectPendingRequest(s, w, BCCalculatorError("BC_TIMEOUT", NoDetails)), w)

\* --------------------------------------------------------- BCProcessPool
createProcess(s, cr) ==
  LET w == s.created + 1
  IN IF w > MaxWorkers THEN [s EXCEPT !.overflow = TRUE]
     ELSE start([s EXCEPT !.created = w, !.creator[w] = cr], w)

\* variant: availableProcesses is not emptied
shutdown_KeepsAvailable(s) ==
  LET killAll[i \in 0..Len(s.processes)] ==
        IF i = 0 THEN s ELSE kill(killAll[i - 1], s.processes[i])
  IN [killAll[Len(s.processes)] EXCEPT !.processes = << >>,
                                       !.isInitialized = FALSE,
                                       !.afterShutdown = TRUE]

shutdown(s) ==
  LET killAll[i \in 0..Len(s.processes)] ==
        IF i = 0 THEN s ELSE kill(killAll[i - 1], s.processes[i])
  IN [killAll[Len(s.processes)] EXCEPT !.processes = << >>,
                                       !.availableProcesses = << >>,
                                       !.isInitialized = FALSE,
                                       !.afterShutdown = TRUE]

\* the call as the history sees it: the worker, whether it was a member,
\* isAvailable() and in availableProcesses at the call, and processes at the call
Released(s, p) ==
  [s EXCEPT !.ev.rel = @ \cup {[w |-> p, member |-> includes(s.processes, p),
                                healthy |-> isAvailable(s, p),
                                wasIn |-> includes(s.availableProcesses, p),
                                before |-> s.processes]}]

\* variant: a healthy worker is pushed without the includes() test
releaseProcess_NoIncludesCheck(s, p) ==
  IF ~includes(s.processes, p) THEN Released(s, p)
  ELSE IF isAvailable(s, p)
  THEN [Released(s, p) EXCEPT !.availableProcesses = Append(@, p)]
  ELSE LET s1 == [Released(s, p) EXCEPT !.processes = without(@, p),
                                        !.availableProcesses = without(@, p)]
       IN createProcess(kill(s1, p), Creator("release", 0))

\* variant: an unhealthy worker is killed and replaced but stays a member
releaseProcess_KeepsMember(s, p) ==
  IF ~includes(s.processes, p) THEN Released(s, p)
  ELSE IF isAvailable(s, p)
  THEN IF ~includes(s.availableProcesses, p)
       THEN [Released(s, p) EXCEPT !.availableProcesses = Append(@, p)]
       ELSE Released(s, p)
  ELSE LET s1 == [Released(s, p) EXCEPT !.availableProcesses = without(@, p)]
       IN createProcess(kill(s1, p), Creator("release", 0))

\* variant: no test that the worker is in processes
releaseProcess_NoMemberCheck(s, p) ==
  IF isAvailable(s, p)
  THEN IF ~includes(s.availableProcesses, p)
       THEN [Released(s, p) EXCEPT !.availableProcesses = Append(@, p)]
       ELSE Released(s, p)
  ELSE LET s1 == [Released(s, p) EXCEPT !.processes = without(@, p),
                                        !.availableProcesses = without(@, p)]
       IN createProcess(kill(s1, p), Creator("release", 0))

releaseProcess(s, p) ==
  IF ~includes(s.processes, p) THEN Released(s, p)
  ELSE IF isAvailable(s, p)
  THEN IF ~includes(s.availableProcesses, p)
       THEN [Released(s, p) EXCEPT !.availableProcesses = Append(@, p)]
       ELSE Released(s, p)
  ELSE LET s1 == [Released(s, p) EXCEPT !.processes = without(@, p),
                                        !.availableProcesses = without(@, p)]
       IN createProcess(kill(s1, p), Creator("release", 0))

\* ------------------------------------------------------ request handlers
\* the handler returns its response
Finish(s, h, resp) ==
  [s EXCEPT !.hpc[h] = "idle", !.hproc[h] = 0,
            !.hprec[h] = defaultPrecision, !.hexpr[h] = << >>, !.waitedTime[h] = 0,
            !.ev.resp = @ \cup {[h |-> h, val |-> resp]}]

\* variant: the directive carries the global default as it is when
\* acquireProcess() returns, not the precision read when the request started
acquireReturn_GlobalPrecision(s, h, p, wf) ==
  LET s1 == [s EXCEPT !.ev.acq = @ \cup
                         {[h |-> h, w |-> p, avail |-> isAvailable(s, p),
                           fresh |-> s.hpc[h] = "creating",
                           inAvailable |-> includes(s.availableProcesses, p)]},
                      !.hproc[h] = p, !.hpc[h] = "scale"]
  IN setPrecision(s1, p, s1.globalPrecision,
                  Own("handler", h, "scale", s1.globalPrecision), wf)

\* acquireProcess returns p to handler h, which goes on to setPrecision
acquireReturn(s, h, p, wf) ==
  LET s1 == [s EXCEPT !.ev.acq = @ \cup
                         {[h |-> h, w |-> p, avail |-> isAvailable(s, p),
                           fresh |-> s.hpc[h] = "creating",
                           inAvailable |-> includes(s.availableProcesses, p)]},
                      !.hproc[h] = p, !.hpc[h] = "scale"]
  IN setPrecision(s1, p, s1.hprec[h], Own("handler", h, "scale", s1.hprec[h]), wf)

\* variant: the worker taken from availableProcesses is returned unchecked
acquireTake_NoHealthCheck(s, h, wf) ==
  acquireReturn([s EXCEPT !.availableProcesses = Tail(@)], h,
                Head(s.availableProcesses), wf)

\* acquireProcess from the shift() on
acquireTake(s, h, wf) ==
  LET p == Head(s.availableProcesses)
      s1 == [s EXCEPT !.availableProcesses = Tail(@)]
  IN IF ~isAvailable(s1, p)
     THEN createProcess(kill([s1 EXCEPT !.hpc[h] = "creating"], p), Creator("acquire", h))
     ELSE acquireReturn(s1, h, p, wf)

\* variant: the wait loop tests availableProcesses only
acquireLoop_NoBound(s, h, wf) ==
  IF Len(s.availableProcesses) = 0
  THEN [s EXCEPT !.hpc[h] = "waiting"]
  ELSE acquireTake(s, h, wf)

\* acquireProcess at its wait loop's test
acquireLoop(s, h, wf) ==
  IF Len(s.availableProcesses) = 0 /\ s.waitedTime[h] < maxWaitTime
  THEN [s EXCEPT !.hpc[h] = "waiting"]
  ELSE IF Len(s.availableProcesses) = 0
  THEN Throw(s, Own("handler", h, "acquire", 0), 0, "BC_NOT_READY")
  ELSE acquireTake(s, h, wf)

acquireProcess(s, h, wf) ==
  IF ~s.isInitialized
  THEN Throw(s, Own("handler", h, "acquire", 0), 0, "BC_NOT_READY")
  ELSE acquireLoop([s EXCEPT !.waitedTime[h] = 0], h, wf)

\* handleCalculate / handleCalculateAdvanced up to the first await
\* given: whether the request carries a precision argument
\* expr: the expression (script) argument, a non-empty text
handleCalculate(s, h, given, precArg, expr, wf) ==
  LET precision == IF given THEN precArg ELSE s.globalPrecision
      result == validate(expr)
  IN IF Less(precision, minPrecision) \/ Greater(precision, maxPrecision)
     THEN Finish(s, h, "INVALID_PRECISION")
     ELSE IF ~result.valid THEN Finish(s, h, "VALIDATION_ERROR")
     ELSE acquireProcess([s EXCEPT !.hprec[h] = precision,
                                   !.hexpr[h] = result.sanitized], h, wf)

handleSetPrecision(s, precision) ==
  IF Less(precision, minPrecision) \/ Greater(precision, maxPrecision) THEN s
  ELSE [s EXCEPT !.globalPrecision = precision]

\* ---------------------------------------------------------- continuations
\* variant: the worker is released on the success path only
handlerResume_NoReleaseOnError(s, m, wf) ==
  LET h == m.owner.h
  IN IF m.owner.stmt = "acquire" THEN Finish(s, h, m.val)
     ELSE IF m.owner.stmt = "scale" /\ m.ok
     THEN evaluate([s EXCEPT !.currentPrecision[m.w] = m.owner.n, !.hpc[h] = "expr"],
                   m.w, Own("handler", h, "expr", 0), wf)
     ELSE IF m.ok THEN Finish(releaseProcess(s, m.w), h, "ok")
     ELSE Finish(s, h, m.val)

\* the handler after its awaited setPrecision / evaluate / acquireProcess
handlerResume(s, m, wf) ==
  LET h == m.owner.h
  IN IF m.owner.stmt = "acquire" THEN Finish(s, h, m.val)
     ELSE IF m.owner.stmt = "scale" /\ m.ok
     THEN evaluate([s EXCEPT !.currentPrecision[m.w] = m.owner.n, !.hpc[h] = "expr"],
                   m.w, Own("handler", h, "expr", 0), wf)
     ELSE IF m.ok THEN Finish(releaseProcess(s, m.w), h, "ok")
     ELSE Finish(releaseProcess(s, m.w), h, m.val)

\* Promise.all of an initialize() call sees one more worker started
initializeOk(s, k) ==
  IF s.initCalls[k].state # "waiting" THEN s
  ELSE IF s.initCalls[k].remaining > 1
  THEN [s EXCEPT !.initCalls[k].remaining = @ - 1]
  ELSE [s EXCEPT !.initCalls[k] = [state |-> "settled", remaining |-> 0],
                 !.isInitialized = TRUE]

\* Promise.all of an initialize() call rejects: the catch block
initializeFail(s, k) ==
  IF s.initCalls[k].state # "waiting" THEN s
  ELSE [shutdown([s EXCEPT !.initCalls[k] = [state |-> "settled", remaining |-> 0]])
          EXCEPT !.initFailed = TRUE]

\* createProcess after start() resolved
createProcessOk(s, w, wf) ==
  LET cr == s.creator[w]
      s0 == [s EXCEPT !.creator[w] = Creator("none", 0)]
      s1 == [s0 EXCEPT !.processes = Append(@, w),
                       !.availableProcesses = Append(@, w)]
  IN IF cr.type = "client" THEN s0
     ELSE IF cr.type = "init" THEN initializeOk(s1, cr.id)
     ELSE IF cr.type = "acquire" THEN acquireReturn(s1, cr.id, w, wf)
     ELSE s1

\* createProcess after start() threw
createProcessFail(s, w) ==
  LET cr == s.creator[w]
      s0 == [s EXCEPT !.creator[w] = Creator("none", 0)]
  IN IF cr.type = "init" THEN initializeFail(s0, cr.id)
     ELSE IF cr.type = "acquire" THEN Finish(s0, cr.id, "BC_SPAWN_ERROR")
     ELSE s0

\* start() after its awaited setPrecision
startResume(s, m, wf) ==
  IF m.ok
  THEN createProcessOk([s EXCEPT !.currentPrecision[m.w] = m.owner.n,
                                 !.startPc[m.w] = "started"], m.w, wf)
  ELSE createProcessFail([s EXCEPT !.startPc[m.w] = "failed"], m.w)

\* variant: the cached precision is assigned whether or not the statement succeeded
clientResume_SetsOnFailure(s, m) ==
  LET s1 == [s EXCEPT !.ev.resp = @ \cup {[h |-> 0, val |-> IF m.ok THEN "ok" ELSE m.val]},
                      !.clientAwait = IF m.pend THEN @ \ {m.w} ELSE @]
  IN IF m.owner.stmt = "scale"
     THEN [s1 EXCEPT !.currentPrecision[m.w] = m.owner.n]
     ELSE s1

\* a direct client after its awaited evaluate / setPrecision
clientResume(s, m) ==
  LET s1 == [s EXCEPT !.ev.resp = @ \cup {[h |-> 0, val |-> IF m.ok THEN "ok" ELSE m.val]},
                      !.clientAwait = IF m.pend THEN @ \ {m.w} ELSE @]
  IN IF m.ok /\ m.owner.stmt = "scale"
     THEN [s1 EXCEPT !.currentPrecision[m.w] = m.owner.n]
     ELSE s1

\* whether the promise being settled is still unsettled: its awaiter waits for it
Awaited(s, m) ==
  IF ~m.pend THEN TRUE
  ELSE IF m.owner.type = "start" THEN s.startPc[m.w] = "scale"
  ELSE IF m.owner.type = "handler"
  THEN s.hpc[m.owner.h] = m.owner.stmt /\ s.hproc[m.owner.h] = m.w
  ELSE m.w \in s.clientAwait

\* a settled promise runs its awaiter; settling it again has no effect
Continue(s, m, wf) ==
  IF ~Awaited(s, m) THEN [s EXCEPT !.ev.dup = TRUE]
  ELSE IF m.owner.type = "start" THEN startResume(s, m, wf)
  ELSE IF m.owner.type = "handler" THEN handlerResume(s, m, wf)
  ELSE clientResume(s, m)

\* drain the microtask queue
RECURSIVE RunMicrotasks(_, _)
RunMicrotasks(s, wf) ==
  IF s.mq = << >> \/ s.overflow THEN s
  ELSE RunMicrotasks(Continue([s EXCEPT !.mq = Tail(@)], Head(s.mq), wf), wf)

\* one macrotask: its synchronous part t, then the continuations it queued
Macrotask(t, wf) ==
  LET u == RunMicrotasks(t, wf)
  IN ~u.overflow /\ Commit(u)


\* initialize(): the fan-out of createProcess(i), up to the await of Promise.all
initialize(s) ==
  IF s.isInitialized THEN s
  ELSE LET k == Len(s.initCalls) + 1
           spawnAll[i \in 0..s.config.poolSize] ==
             IF i = 0
             THEN [s EXCEPT !.initCalls = Append(@, [state |-> "waiting",
                                                     remaining |-> s.config.poolSize]),
                            !.afterShutdown = FALSE, !.initFailed = FALSE]
             ELSE createProcess(spawnAll[i - 1], Creator("init", k))
       IN spawnAll[s.config.poolSize]

\* getStatus(): a snapshot computed from the pool's fields, nothing assigned
getStatus(s) ==
  [initialized |-> s.isInitialized,
   totalProcesses |-> Len(s.processes),
   availableProcesses |-> Len(s.availableProcesses),
   busyProcesses |-> Len(s.processes) - Len(s.availableProcesses)]

\* ---------------------------------------------------------------- actions
Alive(w) == w <= created /\ os[w] \in {"running", "killed"}

\* main() or a test calls pool.initialize(); at most `calls` of the calls find
\* the pool not initialized
InitializeUpTo(calls) ==
  /\ isInitialized \/ Len(initCalls) < calls
  /\ Macrotask(initialize(Cur), FALSE)

Initialize ==
  /\ InitializeUpTo(MaxInitCalls)

\* a signal handler or a test calls pool.shutdown()
Shutdown ==
  /\ Macrotask(shutdown(Cur), FALSE)

\* a calculate / calculate_advanced request arrives
HandleCalculate(h, precs) ==
  /\ hpc[h] = "idle"
  /\ \E given \in BOOLEAN, precArg \in precs, expr \in PoolExpressions, wf \in BOOLEAN :
       Macrotask(handleCalculate(Cur, h, given, precArg, expr, wf), wf)

\* a set_precision request arrives
HandleSetPrecision(precs) ==
  /\ \E precision \in precs : Macrotask(handleSetPrecision(Cur, precision), FALSE)

\* the poll timer of a waiting acquireProcess fires
PollTick(h) ==
  /\ hpc[h] = "waiting"
  /\ \E wf \in BOOLEAN :
       Macrotask(acquireLoop([Cur EXCEPT !.waitedTime[h] = @ + checkInterval], h, wf), wf)

\* the 100 ms delay of start() elapses
StartDelayElapsed(w) ==
  /\ w <= created /\ startPc[w] = "delay"
  /\ \E wf \in BOOLEAN : Macrotask(startAfterDelay(Cur, w, wf), wf)

\* the engine writes to stdout and the 'data' event is delivered
StdoutData(w, chunks) ==
  /\ Alive(w) /\ engineFed[w]
  /\ \E data \in chunks, wf \in BOOLEAN :
       LET t == stdoutHandler(Cur, w, data)
       IN Len(t.outputBuffer[w]) <= MaxBuf /\ Macrotask(t, wf)

\* the engine writes to stderr and the 'data' event is delivered
StderrData(w, texts) ==
  /\ Alive(w) /\ engineFed[w]
  /\ \E data \in texts : Macrotask(stderrHandler(Cur, w, data), FALSE)

\* the child process exits and 'exit' is delivered with its code and signal
ProcExitWith(w, code, signal) ==
  /\ Alive(w)
  /\ Macrotask(exitHandler([Cur EXCEPT !.os[w] = "exited"], w, code, signal), FALSE)

\* it exits on its own with one of the codes, or by the SIGTERM that kill() sent
ProcExit(w, codes) ==
  /\ Alive(w)
  /\ \/ os[w] = "running" /\ \E code \in codes : ProcExitWith(w, code, "null")
     \/ os[w] = "killed" /\ ProcExitWith(w, "null", "SIGTERM")

\* the child could not be spawned and 'error' is delivered
ProcError(w) ==
  /\ w <= created /\ os[w] = "running" /\ startPc[w] = "delay"
  /\ Macrotask(errorHandler([Cur EXCEPT !.os[w] = "errored"], w), FALSE)

\* an armed deadline timer fires
TimerFire(w) ==
  /\ w <= created
  /\ \E o \in timers[w] :
       Macrotask(timeoutCallback([Cur EXCEPT !.timers[w] = @ \ {o}], w), FALSE)

\* ---- a direct client of BCProcess (no pool): new BCProcess(...).start(), then
\* ---- any of the public methods in any order
ClientNew ==
  /\ created < NumClientWorkers
  /\ Macrotask(createProcess(Cur, Creator("client", 0)), FALSE)

ClientEvaluate(w) ==
  /\ w <= created
  /\ \E wf \in BOOLEAN :
       Macrotask(evaluate(Cur, w, Own("client", 0, "expr", 0), wf), wf)

ClientSetPrecision(w) ==
  /\ w <= created
  /\ \E n \in PrecisionArgs, wf \in BOOLEAN :
       Macrotask(setPrecision(Cur, w, n, Own("client", 0, "scale", n), wf), wf)

ClientKill(w) ==
  /\ w <= created
  /\ Macrotask(kill(Cur, w), FALSE)

WorkerEvent(chunks, texts, codes) ==
  \E w \in Workers :
    \/ StartDelayElapsed(w)
    \/ StdoutData(w, chunks)
    \/ StderrData(w, texts)
    \/ ProcExit(w, codes)
    \/ ProcError(w)
    \/ TimerFire(w)

Next ==
  \/ Initialize
  \/ Shutdown
  \/ HandleSetPrecision(PoolPrecisionArgs)
  \/ \E h \in Handlers : HandleCalculate(h, PoolPrecisionArgs) \/ PollTick(h)
  \/ WorkerEvent(PoolChunks, PoolErrTexts, PoolExitCodes)

Spec == Init /\ [][Next]_vars

WorkerNext ==
  \/ ClientNew
  \/ \E w \in Workers : ClientEvaluate(w) \/ ClientSetPrecision(w) \/ ClientKill(w)
  \/ WorkerEvent(Chunks, ErrTexts, ExitCodes)

WorkerSpec == Init /\ [][WorkerNext]_vars


\* the scheduler eventually runs the callback of an armed timer
FairWorkerSpec == WorkerSpec /\ \A w \in 1..NumClientWorkers : WF_vars(TimerFire(w))

\* ---- a caller of the static InputValidator.validate with any of the texts below
\* characters between operands: comparison, logical, assignment, arithmetic
OperatorChars == {"<", ">", "=", "!", "&", "|", "+", "-", "*", "/", "^", "%"}
\* x op y for every operator text of one or two characters
OperatorTexts ==
  { <<"x">> \o op \o <<"y">> :
      op \in {<<c>> : c \in OperatorChars} \cup (OperatorChars \X OperatorChars) }
DelimiterChars == {"(", ")", "{", "}", "[", "]"}
\* every text of up to MaxDelimiters grouping delimiters
DelimiterTexts == UNION { [1..n -> DelimiterChars] : n \in 1..MaxDelimiters }
\* the texts the documentation and the tests name, and texts around each rule
NamedTexts ==
  { <<"a", "=", "5", ";", "b", "=", "1", "0", ";", "a", "+", "b">>,
    <<"a", "=", "5", ";", " ", "b", "=", "1", "0", ";", " ", "a", "+", "b">>,
    <<"f", "o", "r", "(", "i", "=", "0", ";", "i", "<", "3", ";", "i", "+", "+", ")", " ", "i">>,
    <<"2", "+", "2">>, <<"s", "q", "r", "t", "(", "1", "4", "4", ")">>,
    <<"(", "1", "+", "2">>, <<"1", "+", "2", ")">>, <<"a", "[", "(", "1", "]", ")">>,
    <<"s", "y", "s", "t", "e", "m", "(", "l", "s", ")">>,
    <<"S", "y", "s", "t", "e", "m", " ", "(", "1", ")">>,
    <<"s", "y", "s", "t", "e", "m", "(", "'", "l", "s", "'", ")">>,
    <<"e", "x", "e", "c", "(", "1", ")">>, <<"e", "x", "e", "c", TAB, "(", ")">>,
    <<"e", "x", "e", "c", "+", "1">>,
    <<BACKTICK, "l", "s", BACKTICK>>, <<"$", "(", "l", "s", ")">>, <<"$", "1">>,
    <<"1", "|", "c", "a", "t">>, <<"1", " ", ">", " ", "/", "t", "m", "p">>,
    <<"1", "<", "f">>, <<"1", ">", NL, "f">>, <<"1", "|", " ", "_">>,
    <<"1", ";", "r", "m", " ", "x">>, <<"1", ";", " ", "L", "S">>, <<"1", ";", "s", "h">>,
    <<"1", ";", "r", "=", "2">>,
    <<"1", "#", "2">>, <<"x", "_", "y">>, <<"1", "\"", "2">>,
    <<"1", NL, "2">>, <<" ">>, <<NL, TAB>>, << >> }
\* a text with white space around it
Padded(texts) == texts \cup { <<" ">> \o text \o <<NL>> : text \in texts }
\* a text of n digits
DigitsOfLength(n) == [i \in 1..n |-> "1"]
Expressions ==
  Padded(NamedTexts \cup OperatorTexts) \cup DelimiterTexts
  \cup Padded({DigitsOfLength(MAX_LENGTH - 2), DigitsOfLength(MAX_LENGTH - 1),
               DigitsOfLength(MAX_LENGTH), DigitsOfLength(MAX_LENGTH + 1)})

\* ---- the server with calculate requests; the precision argument of the first
\* ---- handler's requests may be of any JSON type; the engines answer or exit
RequestPrecisionArgs == PoolPrecisionArgs \cup {NonNumeric}

RequestNext ==
  \/ Initialize
  \/ \E h \in Handlers :
       \/ HandleCalculate(h, IF h = 1 THEN RequestPrecisionArgs ELSE PoolPrecisionArgs)
       \/ PollTick(h)
  \/ \E w \in Workers :
       \/ StartDelayElapsed(w)
       \/ StdoutData(w, PoolChunks)
       \/ ProcExit(w, PoolExitCodes)

RequestSpec == Init /\ [][RequestNext]_vars

\* the caller holds a text and has not called validate() yet
ValidatorInit ==
  /\ ServerInit
  /\ expression \in Expressions
  /\ validation = NoValidation

\* the call InputValidator.validate(expression)
Validate ==
  /\ validation = NoValidation
  /\ validation' = validate(expression)
  /\ UNCHANGED << serverVars, expression >>

ValidatorNext == Validate

ValidatorSpec == ValidatorInit /\ [][ValidatorNext]_vars

\* ------------------------------------------------------------ properties
IsAvailable(w) == isAvailable(Cur, w)
\* the engine of worker w is a running process to which no SIGTERM was sent
Running(w) == w <= created /\ os[w] = "running"
\* kill() ran on the worker (or its start never got a process)
Killed(w) == w <= created /\ ~process[w]

\* C1: every worker acquireProcess() returns is isAvailable() at the instant of
\* return, also when it is the replacement created for a worker found dead.
C1_AcquireReturnsAvailable == \A a \in ev.acq : a.avail
C1_Witness == \E a \in ev.acq : a.fresh /\ a.avail

\* C2: a worker acquireProcess() returns is not in availableProcesses at the
\* moment of return, and no worker is held by two handlers at once.
C2_ExclusiveOwnership ==
  /\ \A a \in ev.acq : ~a.inAvailable
  /\ \A h, g \in Handlers : (h # g /\ hproc[h] # 0) => hproc[h] # hproc[g]

\* C3: a worker holds at most one pending request, whose timer is the only armed
\* one; evaluate() on a worker with a pending request fails at once with
\* BC_NOT_READY, writes nothing, and leaves the pending request and its timer as
\* they were, so that the request is still settled by its own outcome.
C3_SingleFlight ==
  /\ [](\A w \in Workers :
          /\ Cardinality(timers[w]) <= 1
          /\ pendingRequest[w] # NoReq => timers[w] = {pendingRequest[w]})
  /\ [][\A w \in Workers :
          (pendingRequest[w] # NoReq /\ ClientEvaluate(w)) =>
             /\ ev'.resp = {[h |-> 0, val |-> "BC_NOT_READY"]}
             /\ ev'.wrote = {} /\ ev'.settled = {}
             /\ pendingRequest' = pendingRequest
             /\ timers' = timers]_vars
C3_Witness ==
  \E w \in Workers :
    /\ pendingRequest[w] # NoReq /\ isReady[w] /\ process[w]
    /\ ev.resp = {[h |-> 0, val |-> "BC_NOT_READY"]}

\* C4: when the deadline timer of a pending request fires, the request is
\* rejected with BC_TIMEOUT, the engine gets SIGTERM and the worker is dead; a
\* dead worker stays dead (isAvailable() false) and acquireProcess() never
\* returns it.
C4_TimeoutKills ==
  [][\A w \in Workers :
       /\ (pendingRequest[w] # NoReq /\ TimerFire(w)) =>
             /\ [w |-> w, req |-> pendingRequest[w], ok |-> FALSE, val |-> "BC_TIMEOUT",
                details |-> NoDetails]
                  \in ev'.settled
             /\ Killed(w)' /\ ~Running(w)' /\ ~IsAvailable(w)'
       /\ Killed(w) =>
             /\ Killed(w)' /\ ~IsAvailable(w)'
             /\ \A a \in ev'.acq : a.w # w]_vars
C4_Witness ==
  \E x \in ev.settled :
    x.val = "BC_TIMEOUT" /\ x.req.type = "handler" /\ Killed(x.w)

\* C5 as stated: any non-empty stderr text rejects the pending request of a
\* ready worker with BC_RUNTIME_ERROR and leaves the worker available.
C5_Original ==
  [][\A w \in Workers : \A data \in ErrTexts :
       (data # << >> /\ pendingRequest[w] # NoReq /\ isReady[w] /\ process[w]
          /\ StderrData(w, {data})) =>
             /\ [w |-> w, req |-> pendingRequest[w], ok |-> FALSE,
                 val |-> "BC_RUNTIME_ERROR", details |-> NoDetails] \in ev'.settled
             /\ timers'[w] = {} /\ pendingRequest'[w] = NoReq
             /\ IsAvailable(w)']_vars

\* C5: stderr text that is non-empty after trimming rejects the pending request
\* of a ready worker with BC_RUNTIME_ERROR, cancels its timer, clears
\* pendingRequest and leaves the worker isAvailable(), so that the next
\* evaluate() is accepted.
C5_StderrRejects ==
  [][\A w \in Workers : \A data \in ErrTexts :
       (trim(data) # << >> /\ pendingRequest[w] # NoReq /\ isReady[w] /\ process[w]
          /\ StderrData(w, {data})) =>
             /\ [w |-> w, req |-> pendingRequest[w], ok |-> FALSE,
                 val |-> "BC_RUNTIME_ERROR", details |-> NoDetails] \in ev'.settled
             /\ timers'[w] = {} /\ pendingRequest'[w] = NoReq
             /\ IsAvailable(w)']_vars
C5_Witness ==
  \E x \in ev.settled : x.val = "BC_RUNTIME_ERROR" /\ IsAvailable(x.w)

\* C6: no request is settled twice (resolve / reject is never called on a promise
\* that was already settled, and one macrotask settles a worker's request at most
\* once); a settlement is of the request that was pending, or of one accepted in
\* the same macrotask whose write failed; and with a fair timer every accepted
\* request is eventually settled.
C6_SettlesExactlyOnce ==
  /\ [](~ev.dup /\ \A w \in Workers :
                     Cardinality({ x \in ev.settled : x.w = w }) <= 1)
  /\ [][\A x \in ev'.settled :
          \/ x.req = pendingRequest[x.w]
          \/ pendingRequest[x.w] = NoReq /\ ~x.ok /\ x.val = "INTERNAL_ERROR"]_vars
  /\ \A w \in 1..NumClientWorkers :
       (pendingRequest[w] # NoReq) ~> (\E x \in ev.settled : x.w = w)
C6_Witness ==
  \E x \in ev.settled : x.ok /\ x.req.type = "client" /\ pendingRequest[x.w] = NoReq

\* C7: after shutdown() returned the pool has no members and none of its engine
\* processes is left running.
C7_AfterShutdown ==
  afterShutdown => (Len(processes) = 0 /\ \A w \in Workers : ~Running(w))

\* C8: after a failed initialize() the pool has no members, nothing available,
\* and none of its engine processes is left running.
C8_FailedInitializeCleansUp ==
  initFailed => /\ processes = << >> /\ availableProcesses = << >>
                /\ \A w \in Workers : ~Running(w)

\* C9: every running engine process belongs to a pool member or to a worker
\* whose start() is still in progress.
C9_NoProcessLeak ==
  \A w \in Workers :
    Running(w) => (includes(processes, w) \/ startPc[w] \in {"delay", "scale"})

\* C10: the pool never has more than poolSize members.
C10_AtMostPoolSize == Len(processes) <= poolSize

\* C11: when acquireProcess() found the worker it took from availableProcesses
\* dead and returns a replacement, the dead worker is no longer a member: every
\* member that was killed is still held by a handler that can release it.
C11_DeadWorkerDiscarded ==
  \A a \in ev.acq :
    a.fresh => \A i \in 1..Len(processes) :
                 \/ process[processes[i]]
                 \/ \E h \in Handlers : hproc[h] = processes[i]

\* C12: releaseProcess(w) of a member that isAvailable() leaves w in
\* availableProcesses exactly once and leaves processes as it was, and releasing
\* it once more changes neither list nor the worker.
C12_ReleaseHealthy ==
  \A r \in ev.rel :
    (r.member /\ r.healthy) =>
       /\ Cardinality({ i \in 1..Len(availableProcesses) :
                          availableProcesses[i] = r.w }) = 1
       /\ processes = r.before
       /\ LET t == releaseProcess(Cur, r.w)
          IN /\ t.availableProcesses = availableProcesses
             /\ t.processes = processes
             /\ t.created = created
             /\ t.process = process /\ t.isReady = isReady
             /\ t.pendingRequest = pendingRequest /\ t.os = os
C12_Witness ==
  /\ \E r \in ev.rel : r.member /\ r.healthy /\ ~r.wasIn
  /\ \E r \in ev.rel : includes(availableProcesses, r.w)

\* C13: releaseProcess(w) of a member that is not isAvailable() removes w from
\* processes and availableProcesses and kills it within the call, and the caller
\* goes on (the handler responds) in the same macrotask while the replacement is
\* still starting; the replacement joins both lists only when its start()
\* succeeded, and when its start() fails the lists stay as they are and no caller
\* gets an error from it.
C13_ReleaseUnhealthy ==
  /\ [][\A r \in ev'.rel :
          (r.member /\ ~r.healthy) =>
             /\ ~includes(processes', r.w) /\ ~includes(availableProcesses', r.w)
             /\ Killed(r.w)'
             /\ ev'.resp # {}
             /\ created' = created + 1
             /\ creator'[created'] = Creator("release", 0)
             /\ startPc'[created'] = "delay"
             /\ ~includes(processes', created')
             /\ ~includes(availableProcesses', created')]_vars
  /\ [][\A w \in Workers :
          creator[w] = Creator("release", 0) =>
             \/ /\ startPc'[w] \in {"delay", "scale"}
                /\ ~includes(processes', w) /\ ~includes(availableProcesses', w)
             \/ /\ startPc'[w] = "started"
                /\ processes' = Append(processes, w)
                /\ availableProcesses' = Append(availableProcesses, w)
             \/ /\ startPc'[w] = "failed"
                /\ processes' = processes
                /\ availableProcesses' = availableProcesses
                /\ ev'.resp = {}]_vars
C13_Witness ==
  \E w \in Workers :
    /\ w <= created /\ startPc[w] = "failed" /\ ev.settled # {}
    /\ \A x \in ev.settled : x.w = w /\ x.req.type = "start"
    /\ ~includes(processes, w)
    /\ \E v \in Workers : v <= created /\ v # w /\ Killed(v) /\ ~includes(processes, v)
                          /\ startPc[v] = "started"
    /\ Len(processes) = poolSize - 1

\* C16: a handler that returns its response has passed the worker it got from
\* acquireProcess() to releaseProcess(), on the success path and on every failure
\* of setPrecision or evaluate.
C16_AlwaysReleases ==
  [][\A h \in Handlers :
       (\E x \in ev'.resp : x.h = h) =>
          /\ hproc[h] # 0 => \E r \in ev'.rel : r.w = hproc[h]
          /\ \A a \in ev'.acq : a.h = h => \E r \in ev'.rel : r.w = a.w]_vars
C16_Witness ==
  \E x \in ev.resp, r \in ev.rel, y \in ev.settled :
    /\ x.h # 0 /\ x.val = "BC_PROCESS_EXIT"
    /\ y.w = r.w /\ y.req = Own("handler", x.h, "expr", 0)

\* C17: when 'exit' is delivered while a request is pending, that request is
\* rejected with BC_PROCESS_EXIT carrying the exit code and the signal, and the
\* worker is dead (isReady false, isAvailable() false); when no request is
\* pending the worker is dead as well and the step settles no request.
C17_ExitRejects ==
  [][\A w \in Workers : \A code \in ExitCodes \cup {"null"} :
       \A signal \in {"null", "SIGTERM"} :
          ProcExitWith(w, code, signal) =>
             /\ ~isReady'[w] /\ ~IsAvailable(w)'
             /\ pendingRequest'[w] = NoReq
             /\ IF pendingRequest[w] # NoReq
                THEN ev'.settled =
                       {[w |-> w, req |-> pendingRequest[w], ok |-> FALSE,
                         val |-> "BC_PROCESS_EXIT",
                         details |-> [code |-> code, signal |-> signal]]}
                ELSE ev'.settled = {}]_vars
C17_Witness ==
  \E x \in ev.settled :
    /\ x.val = "BC_PROCESS_EXIT" /\ x.req.type = "client"
    /\ x.details = [code |-> "1", signal |-> "null"]
    /\ os[x.w] = "exited" /\ ~isReady[x.w]

\* C18: once a worker has observed 'exit', 'error' or kill(), no later step makes
\* it ready again (isReady with a process handle) and isAvailable() stays false.
C18_DeadIsTerminal ==
  [][\A w \in Workers :
       (w <= created /\ (os[w] \in {"exited", "errored"} \/ ~process[w])) =>
          /\ ~(isReady'[w] /\ process'[w])
          /\ ~IsAvailable(w)']_vars

\* C19: kill() in any state leaves the worker without a process handle, so that
\* it is not ready (isReady with a process handle) and isAvailable() is false;
\* it stays so and accepts no request from then on, and a second kill() changes
\* nothing.
C19_KillIdempotent ==
  /\ [][\A w \in Workers :
          /\ ClientKill(w) =>
                /\ ~process'[w] /\ ~(isReady'[w] /\ process'[w]) /\ ~IsAvailable(w)'
                /\ (LET k == kill(Cur, w)
                    IN /\ k.process = process /\ k.isReady = isReady /\ k.os = os
                       /\ k.pendingRequest = pendingRequest /\ k.timers = timers
                       /\ k.currentPrecision = currentPrecision
                       /\ k.outputBuffer = outputBuffer)'
          /\ Killed(w) =>
                /\ Killed(w)' /\ ~IsAvailable(w)'
                /\ \A x \in ev'.wrote : x.w # w]_vars
  /\ [](\A w \in Workers :
          LET k == kill(Cur, w)
          IN ~(k.isReady[w] /\ k.process[w]) /\ ~isAvailable(k, w) /\ kill(k, w) = k)
C19_Witness ==
  \E w \in Workers :
    /\ Killed(w) /\ os[w] = "killed" /\ pendingRequest[w] # NoReq
    /\ pendingRequest[w].type = "client" /\ ev = NoEvent

\* C20: setPrecision(n) with n < 0 or n > 100 fails with VALIDATION_ERROR and
\* nothing else happens: nothing is written to the engine, no pending request or
\* timer is created, and currentPrecision and the worker's state are unchanged.
C20_InvalidPrecisionRejected ==
  [][\A w \in Workers : \A n \in PrecisionArgs :
       ((n < minPrecision \/ n > maxPrecision) /\ w <= created
          /\ \E wf \in BOOLEAN :
               Macrotask(setPrecision(Cur, w, n, Own("client", 0, "scale", n), wf), wf)) =>
          /\ ev'.resp = {[h |-> 0, val |-> "VALIDATION_ERROR"]}
          /\ ev'.wrote = {} /\ ev'.settled = {}
          /\ UNCHANGED << process, isReady, currentPrecision, pendingRequest, timers,
                          outputBuffer, os, engineFed, startPc, clientAwait >>]_vars
C20_Witness ==
  \E w \in Workers :
    /\ IsAvailable(w) /\ os[w] = "running"
    /\ ev.resp = {[h |-> 0, val |-> "VALIDATION_ERROR"]}

\* C14: self-healing.  In a state where nothing is in progress any more (no
\* handler is running, so every acquired worker was released; no worker is
\* starting), every start() has succeeded and no dead worker waits in
\* availableProcesses for acquireProcess() to find it, the initialized pool
\* (never shut down) has exactly poolSize members and the engine of each is
\* running: this is the state the pool reaches and stays in after it handled the
\* loss of a worker.
C14_SelfHealing ==
  ( /\ isInitialized /\ ~afterShutdown /\ ~initFailed
    /\ \A h \in Handlers : hpc[h] = "idle"
    /\ \A w \in Workers : w <= created => startPc[w] = "started"
    /\ \A i \in 1..Len(availableProcesses) : IsAvailable(availableProcesses[i]) )
  => ( /\ Len(processes) = poolSize
       /\ \A i \in 1..Len(processes) : Running(processes[i]) )

\* C15: acquireProcess() always terminates.  Its polling wait is bounded: every
\* poll adds checkInterval to waitedTime, waitedTime never reaches maxWaitTime
\* plus one interval, a handler still polling is below maxWaitTime,
\* and the poll that finds availableProcesses empty at maxWaitTime fails with
\* BC_NOT_READY.  Its wait for a replacement is bounded: the replacement is at
\* its start delay or has its scale= request pending under an armed deadline
\* timer, and the firing of that timer ends the wait.
C15_AcquireTerminates ==
  /\ [](\A h \in Handlers :
          /\ waitedTime[h] < maxWaitTime + checkInterval
          /\ hpc[h] = "waiting" => waitedTime[h] < maxWaitTime
          /\ hpc[h] = "creating" =>
                \E w \in Workers :
                   /\ w <= created /\ creator[w] = Creator("acquire", h)
                   /\ \/ startPc[w] = "delay"
                      \/ startPc[w] = "scale" /\ timers[w] = {pendingRequest[w]}
                                              /\ pendingRequest[w].type = "start")
  /\ [][\A h \in Handlers :
          PollTick(h) =>
             \/ hpc'[h] = "waiting" /\ waitedTime'[h] = waitedTime[h] + checkInterval
             \/ hpc'[h] # "waiting"]_vars
  /\ [][\A h \in Handlers :
          (PollTick(h) /\ waitedTime[h] + checkInterval >= maxWaitTime
             /\ Len(availableProcesses) = 0) =>
                [h |-> h, val |-> "BC_NOT_READY"] \in ev'.resp]_vars
  /\ [][\A w \in Workers : \A h \in Handlers :
          (creator[w] = Creator("acquire", h) /\ hpc[h] = "creating") =>
             /\ StartDelayElapsed(w) => startPc'[w] # "delay"
             /\ TimerFire(w) => hpc'[h] # "creating"]_vars
C15_Witness ==
  \E h \in Handlers :
    /\ [h |-> h, val |-> "BC_NOT_READY"] \in ev.resp
    /\ isInitialized /\ Len(availableProcesses) = 0 /\ Len(processes) > 0

\* C21: the cached precision is the last value successfully applied: it changes
\* only in a step in which a precision statement scale=n with 0 <= n <= 100
\* resolved on that worker, and then to n; a step in which a request of the
\* worker is rejected, or in which a direct call fails (validation, not ready,
\* busy, runtime error, timeout, exit), leaves every cached precision unchanged.
C21_CachedPrecision ==
  [][/\ \A w \in Workers :
          currentPrecision'[w] # currentPrecision[w]
          => \E x \in ev'.settled :
               /\ x.w = w /\ x.ok /\ x.req.stmt = "scale"
               /\ x.req.n = currentPrecision'[w]
               /\ x.req.n >= minPrecision /\ x.req.n <= maxPrecision
     /\ (\E x \in ev'.settled : ~x.ok) => currentPrecision' = currentPrecision
     /\ (\E r \in ev'.resp : r.val # "ok") => currentPrecision' = currentPrecision
    ]_vars
C21_Witness ==
  \E x \in ev.settled :
    /\ x.ok /\ x.req.type = "client" /\ x.req.stmt = "scale"
    /\ currentPrecision[x.w] = x.req.n /\ x.req.n # defaultPrecision

\* C22: a failing write to the engine's input stream inside evaluate() rejects
\* the request with INTERNAL_ERROR and is fatal to the worker: after the step
\* the worker is not Ready and isAvailable() is false.
C22_WriteFailureFatal ==
  [][\A x \in ev'.settled :
       x.val = "INTERNAL_ERROR" /\ ~x.ok
       => ~isReady'[x.w] /\ ~IsAvailable(x.w)']_vars

\* validate() returned for the text it was given
Validated == validation # NoValidation
\* the text contains the given characters in a row
Contains(text, part) ==
  \E i \in 1..(Len(text) - Len(part) + 1) : SubSeq(text, i, i + Len(part) - 1) = part
\* the characters of the text in lower case
LowerCased(text) == [i \in 1..Len(text) |-> ToLower(text[i])]
\* the first character after position i that is not white space, if any
NextAfterSpaces(text, i) ==
  IF \E j \in (i + 1)..Len(text) : text[j] \notin WhiteSpace
  THEN << text[CHOOSE j \in (i + 1)..Len(text) :
                 text[j] \notin WhiteSpace /\ \A k \in (i + 1)..(j - 1) : text[k] \in WhiteSpace] >>
  ELSE << >>
\* a pipe or a redirect followed by a word or a path
PipeOrRedirect(text) ==
  \E i \in 1..Len(text) :
    /\ text[i] \in {"|", "<", ">"}
    /\ \E c \in WordChars \cup {"/"} : NextAfterSpaces(text, i) = <<c>>
\* ';' followed by the name of a shell command
ShellCommandAfterSemicolon(text) ==
  \E i \in 1..Len(text), word \in ShellCommands :
    /\ text[i] = ";"
    /\ \E j \in (i + 1)..Len(text) :
         /\ \A k \in (i + 1)..(j - 1) : text[k] \in WhiteSpace
         /\ j + Len(word) - 1 <= Len(text)
         /\ LowerCased(SubSeq(text, j, j + Len(word) - 1)) = word
DenyListed(text) ==
  \/ Contains(LowerCased(text), <<"s", "y", "s", "t", "e", "m", "(">>)
  \/ Contains(LowerCased(text), <<"e", "x", "e", "c", "(">>)
  \/ Contains(text, <<BACKTICK>>)
  \/ Contains(text, <<"$", "(">>)
  \/ PipeOrRedirect(text)
  \/ ShellCommandAfterSemicolon(text)
AssignmentSequence == <<"a", "=", "5", ";", "b", "=", "1", "0", ";", "a", "+", "b">>

CloserOf(c) == IF c = "(" THEN ")" ELSE IF c = "{" THEN "}" ELSE "]"
\* the text from position i on closes the open delimiters (innermost last) in
\* order and opens none that it leaves open
RECURSIVE ClosesAll(_, _, _)
ClosesAll(text, i, open) ==
  IF i > Len(text) THEN open = << >>
  ELSE IF text[i] \in {"(", "{", "["} THEN ClosesAll(text, i + 1, Append(open, text[i]))
  ELSE IF text[i] \in {")", "}", "]"}
  THEN /\ open # << >>
       /\ CloserOf(open[Len(open)]) = text[i]
       /\ ClosesAll(text, i + 1, SubSeq(open, 1, Len(open) - 1))
  ELSE ClosesAll(text, i + 1, open)
Balanced(text) == ClosesAll(text, 1, << >>)

\* C25: validate() rejects every text whose grouping delimiters are unbalanced:
\* a missing closer, an extra closer, a closer before its opener, and an opener
\* closed by a delimiter of another kind, as in ( [ ) ].
C25_RejectsUnbalanced ==
  (Validated /\ ~Balanced(expression)) => ~validation.valid

DocumentedOperators ==
  { <<"<">>, <<">">>, <<"<", "=">>, <<">", "=">>, <<"=", "=">>, <<"!", "=">>,
    <<"&", "&">>, <<"|", "|">> }
LoopHeader ==
  <<"f", "o", "r", "(", "i", "=", "0", ";", "i", "<", "3", ";", "i", "+", "+", ")", " ", "i">>

\* C26: validate() accepts the documented comparison and logical operators
\* between alphanumeric operands, x<y, x>y, x<=y, x>=y, x==y, x!=y, x&&y and
\* x||y, and the loop header for(i=0;i<3;i++) i.
C26_AcceptsDocumentedOperators ==
  (/\ Validated
   /\ \/ \E op \in DocumentedOperators : expression = <<"x">> \o op \o <<"y">>
      \/ expression = LoopHeader)
  => validation.valid

\* C23: the core never evaluates unvalidated text: every statement a compute
\* operation writes to an engine is the sanitized text of an input validate()
\* accepted, or a precision directive scale=<n> with 0 <= n <= 100; a request
\* rejected by the expression validation or by the precision range check
\* acquires no worker and writes nothing.
C23_OnlyValidatedText ==
  [][/\ \A x \in ev'.wrote :
          x.req.type = "handler"
          => IF x.req.stmt = "expr"
             THEN \E e \in PoolExpressions :
                    validate(e).valid /\ x.text = validate(e).sanitized
             ELSE /\ x.req.stmt = "scale" /\ IsNumber(x.req.n)
                  /\ x.req.n >= minPrecision /\ x.req.n <= maxPrecision
     /\ \A r \in ev'.resp :
          r.val \in {"VALIDATION_ERROR", "INVALID_PRECISION"}
          => /\ \A a \in ev'.acq : a.h # r.h
             /\ \A x \in ev'.wrote : ~(x.req.type = "handler" /\ x.req.h = r.h)
    ]_vars

\* C27: in every reachable state every worker in availableProcesses is healthy:
\* it is Ready and has no pending request, isAvailable() is true.
C27_AvailableAreHealthy ==
  \A i \in 1..Len(availableProcesses) : IsAvailable(availableProcesses[i])

\* C28: the deadline timer of a request fires at most once and never after the
\* request was settled: a worker without a pending request has no armed timer;
\* a step that settles a request (by a result, a stderr error, a write failure,
\* an exit, the timeout itself) leaves its timer cancelled; a timer that fires
\* is the timer of the pending request, rejects that request with BC_TIMEOUT and
\* is not armed afterwards, so it never fires on a worker that is Ready and idle.
C28_TimerCancelled ==
  /\ [](\A w \in Workers : pendingRequest[w] = NoReq => timers[w] = {})
  /\ [][\A w \in Workers :
          /\ \A x \in ev'.settled : x.w = w => x.req \notin timers'[w]
          /\ TimerFire(w) =>
               /\ ~IsAvailable(w)
               /\ timers[w] = {pendingRequest[w]} /\ timers'[w] = {}
               /\ \E x \in ev'.settled :
                    x.w = w /\ x.req = pendingRequest[w] /\ x.val = "BC_TIMEOUT"]_vars
\* a request was resolved by a result: the worker is available and no timer is armed
C28_Witness ==
  \E x \in ev.settled :
    x.ok /\ x.req.type = "client" /\ IsAvailable(x.w) /\ timers[x.w] = {}

\* the greatest element of a non-empty set of numbers
Greatest(S) == CHOOSE n \in S : \A m \in S : m <= n
Least(S) == CHOOSE n \in S : \A m \in S : n <= m
\* the positions of the newlines of a text
Newlines(buf) == {i \in 1..Len(buf) : buf[i] = NL}
\* the positions of the characters of the complete line that the newline at e ends
LineBefore(buf, e) ==
  {k \in 1..(e - 1) : \A i \in k..(e - 1) : buf[i] # NL}
\* the positions of its characters that are not white space
InkOf(buf, e) == {k \in LineBefore(buf, e) : buf[k] \notin WhiteSpace}
\* the newlines that end a line with non-empty trimmed content
ResultLines(buf) == {e \in Newlines(buf) : InkOf(buf, e) # {}}
\* the trimmed content of the line that the newline at e ends
TrimmedLine(buf, e) == SubSeq(buf, Least(InkOf(buf, e)), Greatest(InkOf(buf, e)))

\* C29: output framing. With buf the buffered text followed by the text of one
\* read: the pending request is resolved in that step iff buf holds a complete
\* (newline-terminated) line with non-empty trimmed content, and then with the
\* trimmed content of the last such line; the text after the last newline (all
\* of buf when it has no newline) stays in the buffer and settles nothing; a
\* request is never resolved with an empty text or one that holds a newline.
C29_OutputFraming ==
  [][/\ \A w \in Workers, data \in Chunks, wf \in BOOLEAN :
          (Alive(w) /\ Macrotask(stdoutHandler(Cur, w, data), wf))
          => LET buf == outputBuffer[w] \o data
             IN /\ outputBuffer'[w] =
                     IF Newlines(buf) = {} THEN buf
                     ELSE SubSeq(buf, Greatest(Newlines(buf)) + 1, Len(buf))
                /\ IF ResultLines(buf) # {} /\ pendingRequest[w] # NoReq
                   THEN /\ ev'.settled =
                             {[w |-> w, req |-> pendingRequest[w], ok |-> TRUE,
                               val |-> TrimmedLine(buf, Greatest(ResultLines(buf))),
                               details |-> NoDetails]}
                        /\ pendingRequest'[w] = NoReq
                   ELSE /\ ev'.settled = {}
                        /\ pendingRequest'[w] = pendingRequest[w]
     /\ \A x \in ev'.settled :
          x.ok => /\ x.val # << >> /\ \A i \in 1..Len(x.val) : x.val[i] # NL
                  /\ x.val[1] \notin WhiteSpace /\ x.val[Len(x.val)] \notin WhiteSpace
    ]_vars
\* one read completed the lines 4 and 7 and the request was resolved with 7
C29_Witness ==
  \E x \in ev.settled : x.ok /\ x.val = <<"7">> /\ outputBuffer[x.w] = << >>

\* C30: start() declares the worker Ready only after the default precision was
\* applied: the ready flag is never set before the startup precision statement
\* has resolved, and a worker whose startup precision statement failed is not
\* left Ready.
C30_ReadyAfterPrecision ==
  \A w \in Workers : isReady[w] => startPc[w] = "started"

\* start() of the worker has not returned yet
Starting(w) == w <= created /\ startPc[w] \in {"delay", "scale"}
\* the engine exited, could not be spawned, or kill() ran on the worker
Dead(w) == w <= created /\ (os[w] \in {"exited", "errored"} \/ Killed(w))

\* C31: evaluate() on a worker that is not Ready (still Starting, or Dead after
\* exit, error or kill) fails with BC_NOT_READY and has no effect: nothing is
\* written, no pending request or timer is created, and the buffers and the
\* worker's state are unchanged.
C31_NotReadyNoEffect ==
  [][\A w \in Workers :
       ((Starting(w) \/ Dead(w)) /\ ClientEvaluate(w)) =>
          /\ ev'.resp = {[h |-> 0, val |-> "BC_NOT_READY"]}
          /\ ev'.wrote = {} /\ ev'.settled = {}
          /\ UNCHANGED << process, isReady, currentPrecision, pendingRequest, timers,
                          outputBuffer, os, engineFed, startPc, clientAwait >>]_vars

\* ---- a direct client of one BCProcess, with the engine followed statement by
\* ---- statement: bc executes its standard input in order, so what it prints
\* ---- belongs to the oldest statement it has not finished; a statement may
\* ---- print several lines, in one read or several (bc-process.ts 65-102)
MaxOwed == 2

\* a macrotask on worker w after which the engine has `finished` fewer
\* statements to answer, and as many more as the macrotask wrote to its stdin
EngineMacrotask(t, wf, w, finished) ==
  LET u == RunMicrotasks(t, wf)
      n == owed[w] + Cardinality({x \in u.ev.wrote : x.w = w}) - finished
  IN /\ ~u.overflow
     /\ n \in 0..MaxOwed
     /\ CommitServer(u)
     /\ owed' = [owed EXCEPT ![w] = n]

EngineStart(w) ==
  /\ w <= created /\ startPc[w] = "delay"
  /\ \E wf \in BOOLEAN : EngineMacrotask(startAfterDelay(Cur, w, wf), wf, w, 0)

EngineEvaluate(w) ==
  /\ w <= created
  /\ \E wf \in BOOLEAN :
       EngineMacrotask(evaluate(Cur, w, Own("client", 0, "expr", 0), wf), wf, w, 0)

\* the engine prints for the statement it is executing, and goes on with that
\* statement (finished = 0) or is done with it (finished = 1)
EngineStdout(w) ==
  /\ Alive(w) /\ owed[w] >= 1
  /\ \E data \in Chunks, wf \in BOOLEAN, finished \in {0, 1} :
       LET t == stdoutHandler(Cur, w, data)
       IN Len(t.outputBuffer[w]) <= MaxBuf /\ EngineMacrotask(t, wf, w, finished)

EngineStderr(w) ==
  /\ Alive(w) /\ owed[w] >= 1
  /\ \E data \in ErrTexts, finished \in {0, 1} :
       EngineMacrotask(stderrHandler(Cur, w, data), FALSE, w, finished)

EngineNext ==
  \/ ClientNew
  \/ \E w \in Workers : EngineStart(w)
  \/ \E w \in Workers : EngineEvaluate(w)
  \/ \E w \in Workers : EngineStdout(w)
  \/ \E w \in Workers : EngineStderr(w)
  \/ \E w \in Workers : TimerFire(w)

EngineSpec == Init /\ [][EngineNext]_vars

\* C32: request/response matching. A request is resolved only by output the
\* engine printed for that request's own statement: when a request of worker w
\* is resolved, the statement the engine was answering is the one written for
\* that request, i.e. the only statement of w the engine had not finished.
C32_OwnOutputOnly ==
  [][\A x \in ev'.settled : x.ok => owed[x.w] = 1]_vars

\* ---- a pool constructed with poolSize 1, whose initialize() may be called by
\* ---- two callers (main and a test harness, or a retry) before or after one
\* ---- another completes; the engines answer or exit
smallPoolSize == 1
MaxInitCallers == 2

SmallPoolInit ==
  /\ Constructed(smallPoolSize)
  /\ expression = << >>
  /\ validation = NoValidation

InitializeAgain ==
  /\ InitializeUpTo(MaxInitCallers)

SmallPoolNext ==
  \/ InitializeAgain
  \/ \E h \in Handlers : HandleCalculate(h, PoolPrecisionArgs) \/ PollTick(h)
  \/ \E w \in Workers :
       \/ StartDelayElapsed(w)
       \/ StdoutData(w, PoolChunks)
       \/ ProcExit(w, PoolExitCodes)

SmallPoolSpec == SmallPoolInit /\ [][SmallPoolNext]_vars

\* C33: isolation between concurrent compute operations. A worker that is
\* checked out to a handler is killed only by the callback of its own timer,
\* by shutdown() (which leaves the pool uninitialized), or in a step in which
\* that handler itself gives it up (its release after a failure of the
\* worker); never by a step of another operation.
C33_Isolation ==
  [][\A w \in Workers, h \in Handlers :
       (hproc[h] = w /\ process[w] /\ ~process'[w]) =>
          \/ TimerFire(w)
          \/ ~isInitialized'
          \/ hproc'[h] # w]_vars

\* the member workers a request handler holds: returned to it by
\* acquireProcess() and not yet passed to releaseProcess()
CheckedOut ==
  {w \in Workers : includes(processes, w) /\ \E h \in Handlers : hproc[h] = w}

\* C34: status() is consistent. Its total is the number of members, its
\* available the number of available workers, busy their difference, and busy
\* is the number of member workers checked out to a caller.
C34_StatusConsistent ==
  LET status == getStatus(Cur)
  IN /\ status.totalProcesses = Len(processes)
     /\ status.availableProcesses = Len(availableProcesses)
     /\ status.busyProcesses = status.totalProcesses - status.availableProcesses
     /\ status.busyProcesses = Cardinality(CheckedOut)

NoDuplicates(q) == \A i, j \in 1..Len(q) : q[i] = q[j] => i = j

\* C35: every worker in availableProcesses is in processes, neither list holds
\* a worker twice, and the busy count of getStatus() is not negative.
C35_AvailableSubset ==
  /\ \A i \in 1..Len(availableProcesses) : includes(processes, availableProcesses[i])
  /\ NoDuplicates(processes)
  /\ NoDuplicates(availableProcesses)
  /\ getStatus(Cur).busyProcesses >= 0

\* an unhealthy worker was released and removed from the lists, a replacement
\* completed its start() and sits in both, and another member is checked out
C35_Witness ==
  /\ isInitialized
  /\ \E w \in 1..poolSize : ~includes(processes, w)
  /\ \E w \in Workers : /\ w > poolSize
                        /\ includes(processes, w) /\ includes(availableProcesses, w)
  /\ Len(availableProcesses) < Len(processes)

\* C36: initialize() spawns one set of workers however often it is called. A
\* call on an initialized pool, or made while an earlier call is waiting for
\* its workers to start, constructs no worker and leaves processes and
\* availableProcesses as they are.
C36_InitializeOnce ==
  [][(/\ InitializeAgain
      /\ \/ isInitialized
         \/ \E k \in 1..Len(initCalls) : initCalls[k].state = "waiting")
       => /\ created' = created
          /\ UNCHANGED << processes, availableProcesses >>]_vars

\* the pool is not initialized: no initialize() has completed, or the latest
\* one failed, or shutdown() was called and initialize() was not called since
NotInitialized == ~isInitialized \/ initFailed \/ afterShutdown

\* a request arrives at the idle handler h, passes the handler's own checks
\* and gets as far as acquireProcess() in this step
ReachesAcquire(h) ==
  /\ hpc[h] = "idle"
  /\ hpc'[h] # "idle" \/ \E x \in ev'.resp : x.h = h
  /\ \A x \in ev'.resp : x.h = h => x.val \notin {"INVALID_PRECISION", "VALIDATION_ERROR"}

\* C37: acquireProcess() on a pool that is not initialized fails at once with
\* BC_NOT_READY: the caller does not wait, and processes and
\* availableProcesses stay as they are (no worker is taken, killed or made).
C37_AcquireUninitialized ==
  [][\A h \in Handlers :
       (NotInitialized /\ ReachesAcquire(h)) =>
          /\ \E x \in ev'.resp : x.h = h /\ x.val = "BC_NOT_READY"
          /\ hpc'[h] = "idle"
          /\ UNCHANGED << processes, availableProcesses, created, process >>]_vars

\* C38: releaseProcess(w) of a worker that is not in processes does nothing:
\* processes and availableProcesses stay as they are, no replacement is
\* constructed, and w is not killed (a worker whose handle is cleared in the
\* step was killed by its own timer, whose rejection led to the release).
C38_ReleaseNonMember ==
  [][\A r \in ev'.rel :
       ~r.member =>
          /\ processes' = processes
          /\ availableProcesses' = availableProcesses
          /\ created' = created
          /\ (process[r.w] /\ ~process'[r.w]) =>
                \E x \in ev'.settled : x.w = r.w /\ ~x.ok /\ x.val = "BC_TIMEOUT"]_vars

\* a handler released the worker it held after shutdown() had emptied the pool
C38_Witness ==
  /\ afterShutdown
  /\ \E r \in ev.rel : ~r.member /\ ~r.healthy /\ r.before = << >>
  /\ ev.resp # {}

\* ---- the server on a pool of one worker, with requests of different valid
\* ---- precisions and set_precision calls; the engines answer, report errors
\* ---- or exit
SharedPrecisionArgs == {5, 20}

PrecisionNext ==
  \/ Initialize
  \/ HandleSetPrecision(SharedPrecisionArgs)
  \/ \E h \in Handlers : HandleCalculate(h, SharedPrecisionArgs) \/ PollTick(h)
  \/ \E w \in Workers :
       \/ StartDelayElapsed(w)
       \/ StdoutData(w, PoolChunks)
       \/ StderrData(w, PoolErrTexts)
       \/ ProcExit(w, PoolExitCodes)

PrecisionSpec == SmallPoolInit /\ [][PrecisionNext]_vars

\* the precision directive of the request handler h is working on
OwnDirective(h) == Own("handler", h, "scale", hprec[h])

\* C39: precision per request. The precision of a request is fixed when the
\* request starts; the directive written for it carries that precision; its
\* expression is written to a worker only in the step in which the engine
\* answered that directive, which was the statement last written to the worker
\* (nothing is written to a worker while a request is pending on it), and the
\* worker's cached precision is then the request's.
C39_PrecisionPerRequest ==
  /\ [][\A h \in Handlers :
          (hpc[h] # "idle" /\ hpc'[h] # "idle") => hprec'[h] = hprec[h]]_vars
  /\ [][\A x \in ev'.wrote :
          (x.req.type = "handler" /\ x.req.stmt = "scale") => x.req.n = hprec'[x.req.h]]_vars
  /\ [][\A x \in ev'.wrote :
          pendingRequest[x.w] # NoReq =>
             \E y \in ev'.settled : y.w = x.w /\ y.req = pendingRequest[x.w]]_vars
  /\ [][\A x \in ev'.wrote :
          (x.req.type = "handler" /\ x.req.stmt = "expr") =>
             /\ pendingRequest[x.w] = OwnDirective(x.req.h)
             /\ \E y \in ev'.settled : y.w = x.w /\ y.ok /\ y.req = OwnDirective(x.req.h)
             /\ currentPrecision'[x.w] = hprec[x.req.h]]_vars

\* the expression of a request with precision 5 is written to a worker that an
\* earlier request left at another precision, after set_precision changed the
\* global default
C39_Witness ==
  \E x \in ev.wrote :
    /\ x.req.type = "handler" /\ x.req.stmt = "expr"
    /\ hprec[x.req.h] = 5
    /\ currentPrecision[x.w] = 5
    /\ globalPrecision # hprec[x.req.h]
    /\ \E h \in Handlers : h # x.req.h /\ hpc[h] # "idle" /\ hprec[h] # 5

====
